---- MODULE Spec2Model ----
(***************************************************************************)
(* State-machine model of the 802.11 recon engine (WiFiModule) of          *)
(* modules/hid/hid_sniff.go: Configure/Start/Stop, the dispatch loop, the  *)
(* command handlers registered by NewWiFiModule, and the tasks the         *)
(* dispatch loop shares its barriers with.                                 *)
(***************************************************************************)
EXTENDS Integers, Sequences, FiniteSets, TLC

\* ------------------------------------------------------------------ bounds
\* pcap handles opened over a behaviour
MaxOpens == 2
\* successful SetRunning(true) calls (dispatch-loop tasks)
MaxRuns == 2
\* frames delivered by the radio source over a behaviour
MaxFrames == 2
\* capacity of the packet channel modelled
QueueCap == 1
\* attack sequencers in flight at once
MaxWrites == 1
\* activation outcomes supplied to one Configure()
MaxTries == 3

\* ------------------------------------------------------------- vocabulary
\* mod.handle == nil
NoHandle == 0
\* mod.pktSourceChan == nil
NoChan == 0
\* mod.ap == nil
NoAP == 0
\* wifi.source.file unset: live hardware
Live == ""
\* wifi.source.file set: replay file
PcapFile == "cap.pcap"
\* channel of the one access point of the registry
APChannel == 6
\* wifi.hop.period, in milliseconds
DefaultHop == 250
HopPeriods == {DefaultHop, 2 * DefaultHop}

Nil == [kind |-> "nil", fcs |-> TRUE, len |-> 0, dst |-> "none"]

\* The frames the radio source can deliver: unparsable, management, data and
\* key-exchange frames, with valid and invalid checksums and two lengths,
\* addressed to the access point of the registry or sent by it to a station.
Frames ==
  { [kind |-> "junk",   fcs |-> TRUE,  len |-> 1, dst |-> "sta"],
    [kind |-> "beacon", fcs |-> TRUE,  len |-> 1, dst |-> "sta"],
    [kind |-> "beacon", fcs |-> FALSE, len |-> 2, dst |-> "sta"],
    [kind |-> "data",   fcs |-> TRUE,  len |-> 2, dst |-> "ap"],
    [kind |-> "data",   fcs |-> FALSE, len |-> 1, dst |-> "sta"],
    [kind |-> "eapol",  fcs |-> TRUE,  len |-> 1, dst |-> "ap"],
    [kind |-> "eapol",  fcs |-> FALSE, len |-> 2, dst |-> "sta"] }

\* Frequencies network.GetSupportedFrequencies reports for the interface.
Supported == <<2412, 2417, 2484>>

VARIABLES
  \* fields of WiFiModule and of its SessionModule
  running, source, handle, channel, frequencies, ap, stickChan, skipBroken,
  hopPeriod, pktSourceChan, pktSourceChanClosed, writes, reads,
  \* the environment: parameter store, pcap handles, packet channels
  params, handles, streams, nFrames,
  \* tasks: the command task, dispatch-loop tasks, hopper, pruner
  cmdPc, tasks, hoppers, pruners, crashed,
  \* what the engine has done: Queue.TrackPacket total, registry, handshakes,
  \* the last item the dispatch loop took and what it did with it, the result
  \* of the last command, the activations of the last Start and the handle
  \* opened by the Start of the current run
  traffic, registry, shakes, taken, ret, cfg, runHandle,
  \* fields of HIDRecon (its `channel` is hidChannel here) and the clock
  sniffAddrRaw, sniffAddr, inSniffMode, inPromMode, lastPing, hidChannel, now,
  \* what the HID module has done: the time of the last ping that was
  \* transmitted with success, the last setSniffMode call and its result, the
  \* argument of the last call that succeeded, the channels recorded for the
  \* sniffed device
  lastSent, sniffRet, lastMode, devChannels

modVars  == <<running, source, handle, channel, frequencies, ap, stickChan,
              skipBroken, hopPeriod, pktSourceChan, pktSourceChanClosed, writes, reads>>
envVars  == <<params, handles, streams, nFrames>>
taskVars == <<cmdPc, tasks, hoppers, pruners, crashed>>
obsVars  == <<traffic, registry, shakes, taken, ret, cfg, runHandle>>
hidVars  == <<sniffAddrRaw, sniffAddr, inSniffMode, inPromMode, lastPing, hidChannel,
              now, lastSent, sniffRet, lastMode, devChannels>>
vars     == <<modVars, envVars, taskVars, obsVars, hidVars>>

\* a nil sniffAddrRaw
NoRaw == <<>>

\* no time: nothing has happened yet
Never == -1

NoStream == [state |-> "none", h |-> NoHandle, q |-> <<>>]
NoCfg    == [attempts |-> 0, ups |-> 0]

\* NewWiFiModule: the field values of the constructor.
Init ==
  /\ running = FALSE
  /\ source = Live
  /\ handle = NoHandle
  /\ channel = 0
  /\ frequencies = <<>>
  /\ ap = NoAP
  /\ stickChan = 0
  /\ skipBroken = TRUE
  /\ hopPeriod = DefaultHop
  /\ pktSourceChan = NoChan
  /\ pktSourceChanClosed = FALSE
  /\ writes = 0
  /\ reads = 0
  /\ params = [source |-> Live, skip |-> TRUE, hop |-> DefaultHop]
  /\ handles = <<>>
  /\ streams = [i \in 1..MaxRuns |-> NoStream]
  /\ nFrames = 0
  /\ cmdPc = "idle"
  /\ tasks = <<>>
  /\ hoppers = 0
  /\ pruners = 0
  /\ crashed = FALSE
  /\ traffic = 0
  /\ registry = [known |-> FALSE, enc |-> FALSE, wps |-> FALSE, rcvd |-> 0, sent |-> 0]
  /\ shakes = 0
  /\ taken = [f |-> Nil, out |-> "none"]
  /\ ret = [op |-> "none", err |-> "none"]
  /\ cfg = NoCfg
  /\ runHandle = NoHandle
  /\ sniffAddrRaw = NoRaw
  /\ sniffAddr = ""
  /\ inSniffMode = FALSE
  /\ inPromMode = FALSE
  /\ lastPing = 0
  /\ hidChannel = 1
  /\ now = 0
  /\ lastSent = Never
  /\ sniffRet = [mode |-> "none", err |-> FALSE]
  /\ lastMode = "none"
  /\ devChannels = {}

\* ------------------------------------------------------------- Configure
\* Outcome of one pass of the activation loop: "pre" is a failure of
\* NewInactiveHandle/SetRFMon/SetSnapLen/SetTimeout, the others are the
\* result of ihandle.Activate().
Outcomes == {"ok", "notup", "other", "pre"}

\* Outcomes of the calls after the first one that is not "interface not up"
\* are never consulted; they are fixed to "ok".
ActSeqs ==
  { s \in [1..MaxTries -> Outcomes] :
      \A i \in 1..MaxTries : s[i] # "notup" => \A j \in (i+1)..MaxTries : s[j] = "ok" }

\* The failure, if any, of the one other external call that fails.
Faults == {"none", "rssi", "file", "hop", "freqs", "setchan"}

Envs == [act : ActSeqs, up : BOOLEAN, fault : Faults]

\* A retry that is not limited to the first failure.
RetryOnceBug(retry, o) == retry <= 1 /\ o = "notup"

RetryOnce(retry, o) == retry = 0 /\ o = "notup"

\* The activation loop: its error, whether it opened a handle, whether it
\* assigned mod.handle at all (a failed Activate() assigns nil), and the
\* numbers of Activate() and ActivateInterface() calls.
RECURSIVE ActivateLoop(_, _, _)
ActivateLoop(retry, act, up) ==
  LET o == act[retry + 1] IN
  IF o = "pre"
  THEN [err |-> "setup", opened |-> FALSE, assigned |-> FALSE, attempts |-> 0, ups |-> 0]
  ELSE IF o = "ok"
  THEN [err |-> "none", opened |-> TRUE, assigned |-> TRUE, attempts |-> 1, ups |-> 0]
  ELSE IF RetryOnce(retry, o)
       THEN IF ~up
            THEN [err |-> "ifaceup", opened |-> FALSE, assigned |-> TRUE,
                  attempts |-> 1, ups |-> 1]
            ELSE LET r == ActivateLoop(retry + 1, act, up) IN
                 [r EXCEPT !.assigned = TRUE, !.attempts = @ + 1, !.ups = @ + 1]
       ELSE [err |-> "activate", opened |-> FALSE, assigned |-> TRUE,
             attempts |-> 1, ups |-> 0]

\* mod.handle, err = pcap.OpenOffline(mod.source)
OpenOffline(ok) ==
  [err |-> IF ok THEN "none" ELSE "file", opened |-> ok, assigned |-> TRUE,
   attempts |-> 0, ups |-> 0]

\* The values Configure() leaves in the module's fields, and its error.
Configure(env) ==
  LET src == params.source
      base == [err |-> "none", source |-> src, opened |-> FALSE,
               assigned |-> FALSE, kind |-> "live",
               skipBroken |-> skipBroken, hopPeriod |-> hopPeriod,
               frequencies |-> frequencies,
               attempts |-> 0, ups |-> 0]
  IN
  IF env.fault = "rssi" THEN [base EXCEPT !.err = "param"]
  ELSE
    LET o == IF src # Live
             THEN OpenOffline(env.fault # "file")
             ELSE ActivateLoop(0, env.act, env.up)
        h == [base EXCEPT !.opened = o.opened, !.assigned = o.assigned,
                          !.kind = IF src # Live THEN "file" ELSE "live",
                          !.attempts = o.attempts, !.ups = o.ups]
    IN
    IF o.err # "none" THEN [h EXCEPT !.err = o.err]
    ELSE IF env.fault = "hop"
    THEN [h EXCEPT !.err = "param", !.skipBroken = params.skip]
    ELSE
      LET s == [h EXCEPT !.skipBroken = params.skip, !.hopPeriod = params.hop] IN
      IF src = Live /\ Len(frequencies) = 0
      THEN IF env.fault = "freqs"
           THEN [s EXCEPT !.err = "freqs", !.frequencies = <<>>]
           ELSE IF env.fault = "setchan"
                THEN [s EXCEPT !.err = "setchan", !.frequencies = Supported]
                ELSE [s EXCEPT !.frequencies = Supported]
      ELSE s

\* --------------------------------------------------------- Start / tasks
NewHandle(kind) == [kind |-> kind, closes |-> 0]

\* session.SessionModule.SetRunning(true, cb): refuses when already running,
\* otherwise sets the flag and runs cb on a task of its own.
SetRunningTrue ==
  IF running
  THEN /\ UNCHANGED <<running, tasks>>
  ELSE /\ running' = TRUE
       /\ tasks' = Append(tasks, "launched")

StartErr(c) == IF c.err # "none" THEN c.err ELSE IF running THEN "already" ELSE "none"

ConfiguredBug(c) == c.err \in {"none", "setchan"}

\* `if err := mod.Configure(); err != nil { return err }`
Configured(c) == c.err = "none"

\* WiFiModule.Start: Configure(), then SetRunning(true, dispatch loop).
Start(env) ==
  /\ ~crashed /\ cmdPc = "idle"
  /\ Len(handles) < MaxOpens
  /\ running \/ Len(tasks) < MaxRuns
  /\ LET c == Configure(env) IN
     /\ source' = c.source
     /\ skipBroken' = c.skipBroken
     /\ hopPeriod' = c.hopPeriod
     /\ frequencies' = c.frequencies
     /\ IF c.opened
        THEN /\ handles' = Append(handles, NewHandle(c.kind))
             /\ handle' = Len(handles) + 1
        ELSE /\ handle' = IF c.assigned THEN NoHandle ELSE handle
             /\ UNCHANGED handles
     /\ cfg' = [attempts |-> c.attempts, ups |-> c.ups]
     /\ ret' = [op |-> "start", err |-> StartErr(c)]
     /\ IF Configured(c)
        THEN /\ SetRunningTrue
             /\ runHandle' = IF running THEN runHandle ELSE handle'
        ELSE UNCHANGED <<running, tasks, runHandle>>
  /\ UNCHANGED <<channel, ap, stickChan, pktSourceChan, pktSourceChanClosed,
                 writes, reads, params, streams, nFrames, cmdPc, hoppers,
                 pruners, crashed, traffic, registry, shakes, taken>>
  /\ UNCHANGED hidVars

HopperNeeded == channel = 0 /\ source = Live

\* go mod.channelHopper(): the hopper joins the read barrier of the loop.
HopperStart == hoppers' = hoppers + 1 /\ reads' = reads + 1

\* go mod.stationPruner()
PrunerStart == pruners' = pruners + 1

\* The head of the callback: start the channel hopper if needed, start the
\* pruner.
LoopLaunch(i) ==
  /\ ~crashed /\ i \in DOMAIN tasks /\ tasks[i] = "launched"
  /\ IF HopperNeeded THEN HopperStart ELSE UNCHANGED <<hoppers, reads>>
  /\ PrunerStart
  /\ tasks' = [tasks EXCEPT ![i] = "add"]
  /\ UNCHANGED <<running, source, handle, channel, frequencies, ap, stickChan,
                 skipBroken, hopPeriod, pktSourceChan, pktSourceChanClosed, writes,
                 envVars, cmdPc, crashed, obsVars>>
  /\ UNCHANGED hidVars

\* mod.reads.Add(1)
LoopAdd(i) ==
  /\ ~crashed /\ i \in DOMAIN tasks /\ tasks[i] = "add"
  /\ reads' = reads + 1
  /\ tasks' = [tasks EXCEPT ![i] = "open"]
  /\ UNCHANGED <<running, source, handle, channel, frequencies, ap, stickChan,
                 skipBroken, hopPeriod, pktSourceChan, pktSourceChanClosed, writes,
                 envVars, cmdPc, hoppers, pruners, crashed, obsVars>>
  /\ UNCHANGED hidVars

HandleClosed(h) == h # NoHandle /\ handles[h].closes > 0

\* src := gopacket.NewPacketSource(mod.handle, mod.handle.LinkType());
\* mod.pktSourceChan = src.Packets().  On a nil handle the call is a nil
\* dereference.  On a handle that is already closed it uses a freed pcap
\* descriptor: the task either crashes the process or gets a channel whose
\* reader fails.
LoopOpen(i) ==
  /\ ~crashed /\ i \in DOMAIN tasks /\ tasks[i] = "open"
  /\ IF handle = NoHandle
     THEN /\ crashed' = TRUE
          /\ UNCHANGED <<streams, pktSourceChan, tasks>>
     ELSE \/ /\ streams' = [streams EXCEPT
                              ![i] = [state |-> "open", h |-> handle, q |-> <<>>]]
             /\ pktSourceChan' = i
             /\ tasks' = [tasks EXCEPT ![i] = "recv"]
             /\ UNCHANGED crashed
          \/ /\ HandleClosed(handle)
             /\ crashed' = TRUE
             /\ UNCHANGED <<streams, pktSourceChan, tasks>>
  /\ UNCHANGED <<running, source, handle, channel, frequencies, ap, stickChan,
                 skipBroken, hopPeriod, pktSourceChanClosed, writes, reads, params,
                 handles, nFrames, cmdPc, hoppers, pruners, obsVars>>
  /\ UNCHANGED hidVars

\* --------------------------------------------------------- classification
\* A check that tests the flag alone when the checksum is valid.
SkipFrameBug(f) == skipBroken /\ f.fcs

\* if mod.skipBroken && !dot11.ChecksumValid() { continue }
SkipFrame(f) == skipBroken /\ ~f.fcs

\* discoverProbes/AccessPoints/Clients: a beacon makes its access point
\* known to the registry.
Discover(reg, f) ==
  IF f.kind = "beacon" THEN [reg EXCEPT !.known = TRUE] ELSE reg

\* updateInfo: encryption and WPS facts of a station the registry knows
UpdateInfo(reg, f) ==
  IF f.kind = "beacon" /\ reg.known
  THEN [reg EXCEPT !.enc = TRUE, !.wps = TRUE]
  ELSE reg

\* updateStats: bytes of a data frame, for its destination and its source
UpdateStats(reg, f) ==
  IF f.kind = "data" /\ reg.known
  THEN IF f.dst = "ap" THEN [reg EXCEPT !.rcvd = @ + f.len]
                       ELSE [reg EXCEPT !.sent = @ + f.len]
  ELSE reg

Classify(reg, f) == UpdateStats(UpdateInfo(Discover(reg, f), f), f)

\* discoverHandshakes: a key-exchange frame is appended to the artifact
Handshakes(n, f) == IF f.kind = "eapol" THEN n + 1 ELSE n

\* A counter of frames instead of bytes.
TrackPacketBug(t, f) == t + 1

\* mod.Session.Queue.TrackPacket(uint64(len(packet.Data())))
TrackPacket(t, f) == t + f.len

\* What the loop does with a frame: not parsed, discarded, or classified.
Outcome(f) ==
  IF f.kind = "junk" THEN "unparsed"
  ELSE IF SkipFrame(f) THEN "skipped"
  ELSE "classified"

\* The body of the dispatch loop for one frame taken while running.
Dispatch(f) ==
  /\ traffic' = TrackPacket(traffic, f)
  /\ IF Outcome(f) = "classified"
     THEN /\ registry' = Classify(registry, f)
          /\ shakes' = Handshakes(shakes, f)
     ELSE UNCHANGED <<registry, shakes>>
  /\ taken' = [f |-> f, out |-> Outcome(f)]

\* A loop that only stops on the sentinel.
BreakLoopBug(f) == ~running /\ f = Nil

\* `if !mod.Running() { break }`, whatever the item taken
BreakLoop(f) == ~running

\* One iteration of `for packet := range mod.pktSourceChan`.
LoopRecv(i) ==
  /\ ~crashed /\ i \in DOMAIN tasks /\ tasks[i] = "recv"
  /\ LET s == streams[i] IN
     IF s.q # <<>>
     THEN /\ streams' = [streams EXCEPT ![i].q = Tail(s.q)]
          /\ IF BreakLoop(Head(s.q))
             THEN /\ tasks' = [tasks EXCEPT ![i] = "mark"]
                  /\ taken' = [f |-> Head(s.q), out |-> "break"]
                  /\ UNCHANGED <<traffic, registry, shakes>>
             ELSE /\ UNCHANGED tasks
                  /\ IF Head(s.q) = Nil
                     THEN /\ taken' = [f |-> Nil, out |-> "nil"]
                          /\ UNCHANGED <<traffic, registry, shakes>>
                     ELSE Dispatch(Head(s.q))
     ELSE /\ s.state = "closed"
          /\ tasks' = [tasks EXCEPT ![i] = "mark"]
          /\ UNCHANGED <<streams, traffic, registry, shakes, taken>>
  /\ UNCHANGED <<modVars, params, handles, nFrames, cmdPc, hoppers, pruners,
                 crashed, ret, cfg, runHandle>>
  /\ UNCHANGED hidVars

\* mod.pktSourceChanClosed = true
LoopMark(i) ==
  /\ ~crashed /\ i \in DOMAIN tasks /\ tasks[i] = "mark"
  /\ pktSourceChanClosed' = TRUE
  /\ tasks' = [tasks EXCEPT ![i] = "done"]
  /\ UNCHANGED <<running, source, handle, channel, frequencies, ap, stickChan,
                 skipBroken, hopPeriod, pktSourceChan, writes, reads, envVars, cmdPc,
                 hoppers, pruners, crashed, obsVars>>
  /\ UNCHANGED hidVars

\* defer mod.reads.Done()
LoopDone(i) ==
  /\ ~crashed /\ i \in DOMAIN tasks /\ tasks[i] = "done"
  /\ reads' = reads - 1
  /\ tasks' = [tasks EXCEPT ![i] = "exited"]
  /\ UNCHANGED <<running, source, handle, channel, frequencies, ap, stickChan,
                 skipBroken, hopPeriod, pktSourceChan, pktSourceChanClosed, writes,
                 envVars, cmdPc, hoppers, pruners, crashed, obsVars>>
  /\ UNCHANGED hidVars

\* ------------------------------------------------------ the radio source
\* The reader of the packet source puts a captured frame on the channel.
FrameArrives(i, f) ==
  /\ ~crashed /\ nFrames < MaxFrames
  /\ streams[i].state = "open" /\ ~HandleClosed(streams[i].h)
  /\ Len(streams[i].q) < QueueCap
  /\ streams' = [streams EXCEPT ![i].q = Append(@, f)]
  /\ nFrames' = nFrames + 1
  /\ UNCHANGED <<modVars, params, handles, taskVars, obsVars>>
  /\ UNCHANGED hidVars

\* The reader closes the channel: the replay file is exhausted, or the read
\* on a closed handle fails.
SourceEOF(i) ==
  /\ ~crashed /\ streams[i].state = "open"
  /\ handles[streams[i].h].kind = "file" \/ HandleClosed(streams[i].h)
  /\ streams' = [streams EXCEPT ![i].state = "closed"]
  /\ UNCHANGED <<modVars, params, handles, nFrames, taskVars, obsVars>>
  /\ UNCHANGED hidVars

\* ------------------------------------------------------------------ Stop
\* SetRunning(false, cb) refuses when the module is already stopped.
CanStop == running

\* Stop(): SetRunning(false, cb) clears the flag and runs cb on the calling
\* task.
StopCall ==
  /\ ~crashed /\ cmdPc = "idle"
  /\ IF CanStop
     THEN /\ running' = FALSE
          /\ cmdPc' = "stop_writes"
          /\ ret' = [op |-> "stop", err |-> "pending"]
     ELSE /\ ret' = [op |-> "stop", err |-> "already"]
          /\ UNCHANGED <<running, cmdPc>>
  /\ UNCHANGED <<source, handle, channel, frequencies, ap, stickChan,
                 skipBroken, hopPeriod, pktSourceChan, pktSourceChanClosed, writes, reads,
                 envVars, tasks, hoppers, pruners, crashed, traffic, registry,
                 shakes, taken, cfg, runHandle>>
  /\ UNCHANGED hidVars

WritesDrained == writes = 0

\* mod.writes.Wait()
StopWaitWrites ==
  /\ ~crashed /\ cmdPc = "stop_writes"
  /\ WritesDrained
  /\ cmdPc' = "stop_signal"
  /\ UNCHANGED <<modVars, envVars, tasks, hoppers, pruners, crashed, obsVars>>
  /\ UNCHANGED hidVars

\* if !mod.pktSourceChanClosed { mod.pktSourceChan <- nil }
\* A send on a nil channel never completes; a send on a closed channel
\* panics; a send on a full channel waits for room.
StopSignal ==
  /\ ~crashed /\ cmdPc = "stop_signal"
  /\ IF pktSourceChanClosed
     THEN cmdPc' = "stop_reads" /\ UNCHANGED <<streams, crashed>>
     ELSE IF pktSourceChan = NoChan
     THEN cmdPc' = "stuck_nil" /\ UNCHANGED <<streams, crashed>>
     ELSE IF streams[pktSourceChan].state = "closed"
     THEN crashed' = TRUE /\ UNCHANGED <<streams, cmdPc>>
     ELSE /\ Len(streams[pktSourceChan].q) < QueueCap
          /\ streams' = [streams EXCEPT ![pktSourceChan].q = Append(@, Nil)]
          /\ cmdPc' = "stop_reads"
          /\ UNCHANGED crashed
  /\ UNCHANGED <<modVars, params, handles, nFrames, tasks, hoppers, pruners,
                 obsVars>>
  /\ UNCHANGED hidVars

ReadsDrained == reads = 0

\* mod.reads.Wait()
StopWaitReads ==
  /\ ~crashed /\ cmdPc = "stop_reads"
  /\ ReadsDrained
  /\ cmdPc' = "stop_close"
  /\ UNCHANGED <<modVars, envVars, tasks, hoppers, pruners, crashed, obsVars>>
  /\ UNCHANGED hidVars

\* mod.handle.Close(), then Stop() returns.  Close() on a nil handle is a
\* nil dereference.
StopClose ==
  /\ ~crashed /\ cmdPc = "stop_close"
  /\ IF handle = NoHandle
     THEN /\ crashed' = TRUE
          /\ UNCHANGED <<handles, cmdPc, ret>>
     ELSE /\ handles' = [handles EXCEPT ![handle].closes = @ + 1]
          /\ cmdPc' = "idle"
          /\ ret' = [op |-> "stop", err |-> "none"]
          /\ UNCHANGED crashed
  /\ UNCHANGED <<modVars, params, streams, nFrames, tasks, hoppers, pruners,
                 traffic, registry, shakes, taken, cfg, runHandle>>
  /\ UNCHANGED hidVars

\* ------------------------------------------- sequencers, hopper, pruner
\* An attack sequencer run: writes.Add(1) at its start ...
SeqBegin ==
  /\ ~crashed /\ cmdPc = "idle" /\ running
  /\ writes < MaxWrites
  /\ writes' = writes + 1
  /\ UNCHANGED <<running, source, handle, channel, frequencies, ap, stickChan,
                 skipBroken, hopPeriod, pktSourceChan, pktSourceChanClosed, reads,
                 envVars, taskVars, obsVars>>
  /\ UNCHANGED hidVars

\* ... and writes.Done() at its completion.
SeqEnd ==
  /\ ~crashed /\ writes > 0
  /\ writes' = writes - 1
  /\ UNCHANGED <<running, source, handle, channel, frequencies, ap, stickChan,
                 skipBroken, hopPeriod, pktSourceChan, pktSourceChanClosed, reads,
                 envVars, taskVars, obsVars>>
  /\ UNCHANGED hidVars

SendPcs == {"clear_send", "chan_send"}

\* The channel hopper takes the mode-change signal between two dwell ticks.
HopperRecv ==
  /\ ~crashed /\ hoppers > 0 /\ cmdPc \in SendPcs
  /\ cmdPc' = "idle"
  /\ UNCHANGED <<modVars, envVars, tasks, hoppers, pruners, crashed, obsVars>>
  /\ UNCHANGED hidVars

\* The channel hopper sees the cleared running flag after a tick and returns.
HopperExit ==
  /\ ~crashed /\ hoppers > 0 /\ ~running
  /\ hoppers' = hoppers - 1
  /\ reads' = reads - 1
  /\ UNCHANGED <<running, source, handle, channel, frequencies, ap, stickChan,
                 skipBroken, hopPeriod, pktSourceChan, pktSourceChanClosed, writes,
                 envVars, cmdPc, tasks, pruners, crashed, obsVars>>
  /\ UNCHANGED hidVars

\* The station pruner sees the cleared running flag and returns.
PrunerExit ==
  /\ ~crashed /\ pruners > 0 /\ ~running
  /\ pruners' = pruners - 1
  /\ UNCHANGED <<modVars, envVars, cmdPc, tasks, hoppers, crashed, obsVars>>
  /\ UNCHANGED hidVars

\* -------------------------------------------------------------- commands
\* set wifi.source.file / set wifi.skip-broken / set wifi.hop.period
SetParam(src, skip, hop) ==
  /\ ~crashed /\ cmdPc = "idle"
  /\ params' = [source |-> src, skip |-> skip, hop |-> hop]
  /\ params' # params
  /\ UNCHANGED <<modVars, handles, streams, nFrames, taskVars, obsVars>>
  /\ UNCHANGED hidVars

\* wifi.recon MAC: filter on a station of the registry.
ReconMAC(bssid) ==
  /\ ~crashed /\ cmdPc = "idle"
  /\ IF bssid = "ap" /\ registry.known
     THEN /\ ap' = 1
          /\ stickChan' = APChannel
          /\ ret' = [op |-> "mac", err |-> "none"]
     ELSE /\ ret' = [op |-> "mac", err |-> "notfound"]
          /\ UNCHANGED <<ap, stickChan>>
  /\ UNCHANGED <<running, source, handle, channel, frequencies, skipBroken, hopPeriod,
                 pktSourceChan, pktSourceChanClosed, writes, reads, envVars,
                 taskVars, traffic, registry, shakes, taken, cfg, runHandle>>
  /\ UNCHANGED hidVars

\* network.GetSupportedFrequencies(ifName): the list, or nothing and an error
GetSupportedFrequencies(ok) == IF ok THEN Supported ELSE <<>>

\* wifi.recon clear, up to the send on hopChanges
ReconClear(ok) ==
  /\ ~crashed /\ cmdPc = "idle"
  /\ ap' = NoAP
  /\ stickChan' = 0
  /\ frequencies' = GetSupportedFrequencies(ok)
  /\ cmdPc' = "clear_send"
  /\ ret' = [op |-> "clear", err |-> IF ok THEN "none" ELSE "freqs"]
  /\ UNCHANGED <<running, source, handle, channel, skipBroken, hopPeriod, pktSourceChan,
                 pktSourceChanClosed, writes, reads, envVars, tasks, hoppers,
                 pruners, crashed, traffic, registry, shakes, taken, cfg, runHandle>>
  /\ UNCHANGED hidVars

\* strconv.Atoi on one item of str.Comma(args[0]); -1 stands for the error.
Atoi(s) ==
  CASE s = "1" -> 1
    [] s = "6" -> 6
    [] s = "14" -> 14
    [] s = "200" -> 200
    [] OTHER -> -1

\* network.Dot11Chan2Freq: 0 for a channel that does not exist
Dot11Chan2Freq(ch) ==
  IF ch >= 1 /\ ch <= 13 THEN ((ch - 1) * 5) + 2412
  ELSE IF ch = 14 THEN 2484
  ELSE 0

\* The channel lists of the command line: the items str.Comma yields.
ChanLists ==
  { <<"1">>, <<"6", "14">>, <<"200">>, <<"1", "200">>, <<"1 6">>, <<"14", "1 6">> }

\* The loop of the handler over the items: the frequencies, or the error of
\* the first bad item.
\* A parser that drops the items it cannot use instead of failing.
ParseChannelsBug(items, freqs) ==
  LET fs == [k \in 1..Len(items) |-> Dot11Chan2Freq(Atoi(items[k]))]
  IN  [err |-> "none", freqs |-> freqs \o SelectSeq(fs, LAMBDA f : f # 0)]

RECURSIVE ParseChannels(_, _)
ParseChannels(items, freqs) ==
  IF items = <<>> THEN [err |-> "none", freqs |-> freqs]
  ELSE LET ch == Atoi(Head(items)) IN
       IF ch = -1 THEN [err |-> "atoi", freqs |-> freqs]
       ELSE IF Dot11Chan2Freq(ch) = 0 THEN [err |-> "channel", freqs |-> freqs]
       ELSE ParseChannels(Tail(items), Append(freqs, Dot11Chan2Freq(ch)))

\* A handler that extends the active set instead of replacing it.
NewFrequenciesBug(freqs, ok) ==
  IF Len(freqs) = 0 THEN GetSupportedFrequencies(ok) ELSE frequencies \o freqs

\* if len(freqs) == 0 { freqs = GetSupportedFrequencies() }; the new set
NewFrequencies(freqs, ok) ==
  IF Len(freqs) = 0 THEN GetSupportedFrequencies(ok) ELSE freqs

\* The guard of the send in wifi.recon.channel
SignalGuard == running

\* wifi.recon.channel <list> | clear  (clear is the empty list of items)
ReconChannel(items, ok) ==
  /\ ~crashed /\ cmdPc = "idle"
  /\ LET p == ParseChannels(items, <<>>) IN
     IF p.err # "none"
     THEN /\ ret' = [op |-> "channel", err |-> p.err]
          /\ UNCHANGED <<frequencies, cmdPc>>
     ELSE IF Len(p.freqs) = 0 /\ ~ok
     THEN /\ ret' = [op |-> "channel", err |-> "freqs"]
          /\ UNCHANGED <<frequencies, cmdPc>>
     ELSE /\ frequencies' = NewFrequencies(p.freqs, ok)
          /\ cmdPc' = IF SignalGuard THEN "chan_send" ELSE "idle"
          /\ ret' = [op |-> "channel", err |-> "none"]
  /\ UNCHANGED <<running, source, handle, channel, ap, stickChan, skipBroken, hopPeriod,
                 pktSourceChan, pktSourceChanClosed, writes, reads, envVars,
                 tasks, hoppers, pruners, crashed, traffic, registry, shakes, taken,
                 cfg, runHandle>>
  /\ UNCHANGED hidVars

Tasks == 1..MaxRuns

\* ------------------------------------------- specifications by concern
\* Every external call of Configure() succeeds.
OkEnv == [act |-> [i \in 1..MaxTries |-> "ok"], up |-> TRUE, fault |-> "none"]

\* One frame of traffic: a data frame with a valid checksum.
DataFrame == [kind |-> "data", fcs |-> TRUE, len |-> 2, dst |-> "ap"]

\* Lifecycle: Start/Stop against the dispatch loop, the sequencers, the
\* hopper and the commands that signal it, on live hardware and replay file.
Next ==
  \/ \E env \in {OkEnv, [OkEnv EXCEPT !.fault = "hop"]} : Start(env)
  \/ \E i \in Tasks : LoopLaunch(i)
  \/ \E i \in Tasks : LoopAdd(i)
  \/ \E i \in Tasks : LoopOpen(i)
  \/ \E i \in Tasks : LoopRecv(i)
  \/ \E i \in Tasks : LoopMark(i)
  \/ \E i \in Tasks : LoopDone(i)
  \/ \E i \in Tasks : FrameArrives(i, DataFrame)
  \/ \E i \in Tasks : SourceEOF(i)
  \/ StopCall
  \/ StopWaitWrites
  \/ StopSignal
  \/ StopWaitReads
  \/ StopClose
  \/ SeqBegin
  \/ SeqEnd
  \/ HopperRecv
  \/ HopperExit
  \/ PrunerExit
  \/ \E src \in {Live, PcapFile} : SetParam(src, TRUE, DefaultHop)
  \/ ReconClear(TRUE)
  \/ ReconChannel(<<"1">>, TRUE)

Spec == Init /\ [][Next]_vars

\* The scheduling of the tasks: every task that can take a step eventually
\* takes it; a replay file is eventually exhausted.  Commands and captured
\* frames come from outside and need not come at all.
Fairness ==
  /\ \A i \in Tasks : WF_vars(LoopLaunch(i)) /\ WF_vars(LoopAdd(i)) /\ WF_vars(LoopOpen(i))
  /\ \A i \in Tasks : WF_vars(LoopRecv(i)) /\ WF_vars(LoopMark(i)) /\ WF_vars(LoopDone(i))
  /\ \A i \in Tasks : WF_vars(SourceEOF(i))
  /\ WF_vars(StopWaitWrites) /\ WF_vars(StopSignal)
  /\ WF_vars(StopWaitReads) /\ WF_vars(StopClose)
  /\ WF_vars(SeqEnd) /\ WF_vars(HopperRecv) /\ WF_vars(HopperExit)
  /\ WF_vars(PrunerExit)

FairSpec == Spec /\ Fairness

StopPcs == {"stop_writes", "stop_signal", "stop_reads", "stop_close", "stuck_nil"}

\* The step in which Stop() closes the handle and returns.
StopReturns == cmdPc = "stop_close" /\ cmdPc' = "idle"

LoopsExited == \A i \in DOMAIN tasks : tasks[i] = "exited"

\* C1: Stop() closes the handle only after the write barrier was seen at
\* zero, the loop was signalled and the loop has exited: at the close no
\* sequencer is in flight and no dispatch-loop task is still alive.
C1_CloseAfterLoopExit ==
  [][StopReturns => (writes = 0 /\ reads = 0 /\ LoopsExited)]_vars

\* C2: Stop() does not return before the write barrier is at zero, and when it
\* returns the handle opened by the Start() of this run has been closed
\* exactly once.
C2_ReleasedExactlyOnce ==
  [][StopReturns => (writes = 0 /\ handles'[runHandle].closes = 1)]_vars

\* C3: under fair scheduling every Stop() that was called returns.
C3_StopTerminates == (cmdPc \in StopPcs) ~> (cmdPc = "idle")

\* C4: a command is never blocked in the send of the mode-change signal while
\* no scheduler task is running to receive it.
C4_SignalNeverBlocks == cmdPc \in SendPcs => hoppers > 0

\* C8: while the configured source is a replay file no scheduler task exists.
C8_NoHopperOnReplay == source # Live => hoppers = 0

\* ------------------------------------------------------------- dispatch
\* Frames of every kind against the dispatch loop on live hardware, with the
\* integrity check switched on and off between runs.
DispatchNext ==
  \/ Start(OkEnv)
  \/ \E i \in Tasks : LoopLaunch(i)
  \/ \E i \in Tasks : LoopAdd(i)
  \/ \E i \in Tasks : LoopOpen(i)
  \/ \E i \in Tasks : LoopRecv(i)
  \/ \E i \in Tasks : LoopMark(i)
  \/ \E i \in Tasks : LoopDone(i)
  \/ \E i \in Tasks, f \in Frames : FrameArrives(i, f)
  \/ \E i \in Tasks : SourceEOF(i)
  \/ StopCall
  \/ StopWaitWrites
  \/ StopSignal
  \/ StopWaitReads
  \/ StopClose
  \/ HopperExit
  \/ PrunerExit
  \/ \E skip \in BOOLEAN : SetParam(Live, skip, DefaultHop)

DispatchSpec == Init /\ [][DispatchNext]_vars

\* The step in which dispatch-loop task i takes the head of its channel.
Takes(i) ==
  /\ i \in DOMAIN tasks /\ tasks[i] = "recv"
  /\ streams[i].q # <<>>
  /\ streams'[i].q = Tail(streams[i].q)

Front(i) == Head(streams[i].q)

\* C5: a frame with an invalid checksum taken while skip-broken is set leaves
\* the registry and the handshake artifact as they were, and the loop goes on
\* to the next frame.
C5_BrokenFrameNoEffect ==
  [][\A i \in Tasks :
       (Takes(i) /\ running /\ skipBroken /\ Front(i) # Nil /\ ~Front(i).fcs)
         => (registry' = registry /\ shakes' = shakes /\ tasks'[i] = "recv")]_vars

\* A broken data frame for a known station was discarded under skip-broken.
C5_Witness ==
  /\ taken.out = "skipped" /\ taken.f.kind = "data" /\ ~taken.f.fcs
  /\ registry.known /\ skipBroken

\* C10: a frame taken while running adds its length to the traffic counter,
\* whatever its classification; nothing else changes the counter.
C10_TrafficCounted ==
  [][/\ \A i \in Tasks :
          (Takes(i) /\ running /\ Front(i) # Nil)
            => traffic' = traffic + Front(i).len
     /\ traffic' # traffic
          => \E i \in Tasks : Takes(i) /\ running /\ Front(i) # Nil]_vars

\* Two frames were counted, three bytes in all; the last one was discarded.
C10_Witness ==
  /\ taken.out = "skipped" /\ taken.f.len = 2
  /\ traffic = 3 /\ nFrames = 2

\* ------------------------------------------------------------ activation
\* Every outcome of the external calls of Configure(), on both sources.
ConfigureNext ==
  \/ \E env \in Envs : Start(env)
  \/ \E i \in Tasks : LoopLaunch(i)
  \/ \E i \in Tasks : LoopAdd(i)
  \/ \E i \in Tasks : LoopOpen(i)
  \/ \E i \in Tasks : LoopRecv(i)
  \/ \E i \in Tasks : LoopMark(i)
  \/ \E i \in Tasks : LoopDone(i)
  \/ StopCall
  \/ StopWaitWrites
  \/ StopSignal
  \/ StopWaitReads
  \/ StopClose
  \/ HopperExit
  \/ PrunerExit
  \/ \E src \in {Live, PcapFile}, hop \in HopPeriods : SetParam(src, TRUE, hop)

ConfigureSpec == Init /\ [][ConfigureNext]_vars

\* Start(env) reaches the activation loop of live hardware.
Activates(env) == params.source = Live /\ env.fault # "rssi" /\ env.act[1] # "pre"

\* C9: on live hardware an "interface not up" failure of the first activation
\* is retried once after the interface was brought up; a second such
\* failure, a failure to bring the interface up and any other activation
\* failure make Start() fail; there are at most two activations.
C9_RetryOnce ==
  [][\A env \in Envs : (Start(env) /\ Activates(env)) =>
       /\ cfg'.attempts <= 2 /\ cfg'.ups <= 1
       /\ env.act[1] = "ok" => (cfg'.attempts = 1 /\ cfg'.ups = 0)
       /\ env.act[1] = "other" =>
            (cfg'.attempts = 1 /\ cfg'.ups = 0 /\ ret'.err = "activate")
       /\ (env.act[1] = "notup" /\ ~env.up) =>
            (cfg'.attempts = 1 /\ cfg'.ups = 1 /\ ret'.err = "ifaceup")
       /\ (env.act[1] = "notup" /\ env.up /\ env.act[2] \in {"notup", "other"}) =>
            (cfg'.attempts = 2 /\ cfg'.ups = 1 /\ ret'.err = "activate")
       /\ (env.act[1] = "notup" /\ env.up /\ env.act[2] = "ok") =>
            (cfg'.attempts = 2 /\ cfg'.ups = 1 /\ handle' = Len(handles) + 1)
       /\ ret'.err \in {"activate", "ifaceup", "setup"} =>
            (running' = running /\ handles' = handles /\ tasks' = tasks)]_vars

\* A Start() whose activation failed twice with the interface down.
C9_Witness ==
  /\ ret = [op |-> "start", err |-> "activate"]
  /\ cfg = [attempts |-> 2, ups |-> 1]
  /\ ~running

\* ---------------------------------------------------------- channel set
\* A beacon of the access point of the registry.
Beacon == [kind |-> "beacon", fcs |-> TRUE, len |-> 1, dst |-> "sta"]

\* The channel-list and filter commands against a recon that was not started,
\* that runs on live hardware or that runs from a replay file.
ChannelNext ==
  \/ \E env \in {OkEnv, [OkEnv EXCEPT !.fault = "freqs"]} : Start(env)
  \/ \E i \in Tasks : LoopLaunch(i)
  \/ \E i \in Tasks : LoopAdd(i)
  \/ \E i \in Tasks : LoopOpen(i)
  \/ \E i \in Tasks : LoopRecv(i)
  \/ \E i \in Tasks : LoopMark(i)
  \/ \E i \in Tasks : LoopDone(i)
  \/ \E i \in Tasks : FrameArrives(i, Beacon)
  \/ \E i \in Tasks : SourceEOF(i)
  \/ HopperRecv
  \/ \E src \in {Live, PcapFile} : SetParam(src, TRUE, DefaultHop)
  \/ \E b \in {"ap", "other"} : ReconMAC(b)
  \/ \E ok \in BOOLEAN : ReconClear(ok)
  \/ \E items \in ChanLists \cup {<<>>}, ok \in BOOLEAN : ReconChannel(items, ok)

ChannelSpec == Init /\ [][ChannelNext]_vars

\* The frequency of every item of a channel list.
FreqsOf(items) == [k \in 1..Len(items) |-> Dot11Chan2Freq(Atoi(items[k]))]

\* Every item of the list is the number of a channel that exists.
Valid(items) == \A k \in 1..Len(items) : FreqsOf(items)[k] # 0

\* The command is accepted: its list is valid, and when it supplies no list
\* the supported frequencies could be obtained.
Accepted(items, ok) == Valid(items) /\ (items = <<>> => ok)

\* C6 as stated: after a channel-set command the Channel Set is that of the
\* list it supplied, or the supported set if it supplied none (the supported
\* frequencies being available).
C6_LastSupplied ==
  [][\A items \in ChanLists \cup {<<>>} :
       ReconChannel(items, TRUE) =>
         frequencies' = IF items = <<>> THEN Supported ELSE FreqsOf(items)]_vars

\* C6 amended: after a channel-set command that is accepted the Channel Set
\* is that of the list it supplied, or the supported set if it supplied
\* none; a command that returns an error leaves the Channel Set unchanged.
C6_LastAccepted ==
  [][\A items \in ChanLists \cup {<<>>}, ok \in BOOLEAN :
       ReconChannel(items, ok) =>
         /\ Accepted(items, ok) =>
              /\ frequencies' = IF items = <<>> THEN Supported ELSE FreqsOf(items)
              /\ ret'.err = "none"
         /\ ~Accepted(items, ok) =>
              /\ frequencies' = frequencies
              /\ ret'.err # "none"]_vars

\* A list with a channel that does not exist was rejected after the list
\* <<6, 14>> had been accepted.
C6_Witness ==
  /\ ret = [op |-> "channel", err |-> "channel"]
  /\ frequencies = <<2437, 2484>>

\* C7: clearing a filter that was set leaves the Channel Set that was
\* configured before as it is, and clears the filter and the stick channel
\* (the supported frequencies being available).
C7_ClearKeepsChannelSet ==
  [][(ReconClear(TRUE) /\ ap # NoAP /\ frequencies # <<>>) =>
       (frequencies' = frequencies /\ ap' = NoAP /\ stickChan' = 0)]_vars

\* C11: a Start() whose Configure() fails returns that error and starts
\* nothing: the running flag keeps its value (false on an engine that was not
\* running) and no dispatch loop, channel hopper or station pruner is launched.
C11_FailedConfigureStartsNothing ==
  [][\A env \in Envs :
       Start(env) /\ Configure(env).err # "none" =>
         /\ ret' = [op |-> "start", err |-> Configure(env).err]
         /\ running' = running
         /\ tasks' = tasks /\ hoppers' = hoppers /\ pruners' = pruners]_vars

\* A start on a stopped engine was refused by Configure() and nothing runs.
C11_Witness ==
  /\ ret.op = "start" /\ ret.err \in {"file", "setup", "ifaceup", "activate", "freqs", "setchan"}
  /\ ~running /\ tasks = <<>> /\ hoppers = 0 /\ pruners = 0

\* C12: a channel-list command that fails (an item that is not a number or
\* not a channel anywhere in the list, or no list and no supported
\* frequencies to be had) returns an error, leaves the whole Channel Set as
\* it was and sends no signal to the channel hopper.
C12_RejectedListNoEffect ==
  [][\A items \in ChanLists \cup {<<>>}, ok \in BOOLEAN :
       (ReconChannel(items, ok) /\ ~Accepted(items, ok)) =>
         /\ ret'.op = "channel" /\ ret'.err \in {"atoi", "channel", "freqs"}
         /\ frequencies' = frequencies
         /\ cmdPc' = "idle"]_vars

\* While running on the supported set, a list whose item is not a number
\* was rejected.
C12_Witness ==
  /\ ret = [op |-> "channel", err |-> "atoi"]
  /\ running /\ hoppers > 0 /\ cmdPc = "idle"
  /\ frequencies = Supported

\* The current run was started on live hardware.
StartedLive ==
  running /\ source = Live /\ runHandle # NoHandle /\ handles[runHandle].kind = "live"

\* C13: on live hardware the Channel Set is not empty in any state after a
\* successful Start(), whichever channel-list, filter-set and filter-clear
\* commands follow, those whose supported-frequency lookup fails included.
C13_ChannelSetNonEmpty == StartedLive => frequencies # <<>>

\* The counters and tables the dispatch of a frame writes.
Untouched == traffic' = traffic /\ registry' = registry /\ shakes' = shakes

CurrentLoopExited == tasks # <<>> /\ tasks[Len(tasks)] \in {"done", "exited"}

\* C15: the "stream closed" flag is set only if the dispatch loop of the
\* most recent Start() has exited, so that Stop() sends the sentinel to
\* every loop that has not.
C15_ClosedFlagIsCurrent == pktSourceChanClosed => CurrentLoopExited

\* C16: a Start() on an engine that is already running fails and disturbs
\* nothing: the capture handle, the hop period, the integrity-check flag and
\* the Channel Set are what they were, and no further handle is opened.
C16_StartWhileRunningNoEffect ==
  [][\A env \in Envs :
       (Start(env) /\ running) =>
         /\ ret'.op = "start" /\ ret'.err # "none"
         /\ running'
         /\ handle' = handle /\ handles' = handles
         /\ hopPeriod' = hopPeriod /\ skipBroken' = skipBroken
         /\ frequencies' = frequencies]_vars

\* ------------------------------------------------------------- HID module
\* nrf24.TopChannel, the last channel of the dongle
TopChannel == 125

\* mod.pingPeriod, in ticks of the clock
PingPeriod == 2

\* The clock stops at this tick.
MaxTime == 4

\* The arguments of setSniffMode: "clear", addresses, and a string that is
\* no address.
Modes == {"clear", "AA:BB", "aa:bb", "1F:2E", "zz"}

\* The error of nrf24.ConvertAddress
BadAddress == <<-1>>

\* nrf24.ConvertAddress: the bytes of an address written in hexadecimal
ConvertAddress(a) ==
  CASE a \in {"AA:BB", "aa:bb"} -> <<170, 187>>
    [] a \in {"1F:2E", "1f:2e"} -> <<31, 46>>
    [] OTHER -> BadAddress

\* network.NormalizeHIDAddress: the address in lower case
NormalizeHIDAddress(a) ==
  CASE a = "AA:BB" -> "aa:bb"
    [] a = "1F:2E" -> "1f:2e"
    [] OTHER -> a

\* HIDRecon.isSniffing
IsSniffing == sniffAddrRaw # NoRaw

\* A clear that forgets the raw address only.
SniffTargetBug(mode) ==
  IF mode = "clear"
  THEN [err |-> FALSE, raw |-> NoRaw, addr |-> sniffAddr]
  ELSE IF ConvertAddress(mode) = BadAddress
  THEN [err |-> TRUE, raw |-> sniffAddrRaw, addr |-> sniffAddr]
  ELSE [err |-> FALSE, raw |-> ConvertAddress(mode), addr |-> NormalizeHIDAddress(mode)]

\* What setSniffMode(mode) returns and leaves in the two address fields.
SniffTarget(mode) ==
  IF mode = "clear"
  THEN [err |-> FALSE, raw |-> NoRaw, addr |-> ""]
  ELSE IF ConvertAddress(mode) = BadAddress
  THEN [err |-> TRUE, raw |-> sniffAddrRaw, addr |-> sniffAddr]
  ELSE [err |-> FALSE, raw |-> ConvertAddress(mode), addr |-> NormalizeHIDAddress(mode)]

\* HIDRecon.setSniffMode
SetSniffMode(mode) ==
  /\ inSniffMode' = FALSE
  /\ sniffAddrRaw' = SniffTarget(mode).raw
  /\ sniffAddr' = SniffTarget(mode).addr
  /\ sniffRet' = [mode |-> mode, err |-> SniffTarget(mode).err]
  /\ lastMode' = IF SniffTarget(mode).err THEN lastMode ELSE mode
  /\ UNCHANGED <<inPromMode, lastPing, hidChannel, now, lastSent, devChannels>>
  /\ UNCHANGED <<modVars, envVars, taskVars, obsVars>>

\* time.Since(mod.lastPing) >= mod.pingPeriod
Due == now - lastPing >= PingPeriod

\* The channels on which the dongle can be tuned and the ping gets through:
\* the first of them decides the fallback scan; 0 when there is none.
FirstOks == {0, 1, 2, TopChannel}

\* for mod.channel = 1; mod.channel <= nrf24.TopChannel; mod.channel++ :
\* the loop is left at the least channel that is past the top or on which
\* the ping gets through, and mod.channel keeps that value.
Scan(first) ==
  LET stops == {ch \in 1..(TopChannel + 1) : ch > TopChannel \/ ch = first}
      stop  == CHOOSE ch \in stops : \A c \in stops : ch <= c
  IN  [channel |-> stop, sent |-> stop <= TopChannel]

\* The ping of doPing: on the current channel, then by the fallback scan.
Ping(txOk, first) ==
  IF ~Due
  THEN [channel |-> hidChannel, lastPing |-> lastPing, sent |-> FALSE]
  ELSE IF txOk
  THEN [channel |-> hidChannel, lastPing |-> lastPing, sent |-> TRUE]
  ELSE [channel |-> Scan(first).channel,
        lastPing |-> IF Scan(first).sent THEN now ELSE lastPing,
        sent |-> Scan(first).sent]

\* HIDRecon.doPing, which the module calls while it is sniffing a device
DoPing(enterOk, txOk, first) ==
  /\ IsSniffing
  /\ IF ~inSniffMode /\ enterOk
     THEN inSniffMode' = TRUE /\ inPromMode' = FALSE
     ELSE UNCHANGED <<inSniffMode, inPromMode>>
  /\ hidChannel' = Ping(txOk, first).channel
  /\ lastPing' = Ping(txOk, first).lastPing
  /\ lastSent' = IF Ping(txOk, first).sent THEN now ELSE lastSent
  /\ UNCHANGED <<sniffAddrRaw, sniffAddr, now, sniffRet, lastMode, devChannels>>
  /\ UNCHANGED <<modVars, envVars, taskVars, obsVars>>

\* The buffers of the dongle: empty, a payload, something else
Bufs == {<<>>, <<0, 7>>, <<1, 7>>}

\* HIDRecon.onSniffedBuffer; found: the registry knows the sniffed device
OnSniffedBuffer(buf, found) ==
  /\ IsSniffing
  /\ devChannels' = IF Len(buf) > 0 /\ buf[1] = 0 /\ found
                    THEN devChannels \cup {hidChannel}
                    ELSE devChannels
  /\ UNCHANGED <<sniffAddrRaw, sniffAddr, inSniffMode, inPromMode, lastPing,
                 hidChannel, now, lastSent, sniffRet, lastMode>>
  /\ UNCHANGED <<modVars, envVars, taskVars, obsVars>>

\* Time passes.
Tick ==
  /\ now < MaxTime
  /\ now' = now + 1
  /\ UNCHANGED <<sniffAddrRaw, sniffAddr, inSniffMode, inPromMode, lastPing,
                 hidChannel, lastSent, sniffRet, lastMode, devChannels>>
  /\ UNCHANGED <<modVars, envVars, taskVars, obsVars>>

\* The HID module: sniff-mode commands, pings, sniffed buffers, the clock.
HidNext ==
  \/ \E mode \in Modes : SetSniffMode(mode)
  \/ \E enterOk \in BOOLEAN, txOk \in BOOLEAN, first \in FirstOks : DoPing(enterOk, txOk, first)
  \/ \E buf \in Bufs, found \in BOOLEAN : OnSniffedBuffer(buf, found)
  \/ Tick

HidSpec == Init /\ [][HidNext]_vars

\* C17: after a doPing that transmitted a ping with success, on the current
\* channel or on a channel of the fallback scan, no doPing transmits again
\* before the ping period has elapsed.
C17_OnePingPerPeriod ==
  [][\A enterOk \in BOOLEAN, txOk \in BOOLEAN, first \in FirstOks :
       (DoPing(enterOk, txOk, first) /\ lastSent # Never /\ now - lastSent < PingPeriod)
         => ~Due]_vars

\* C18: the recorded channel is one of 1..TopChannel after every doPing,
\* and so is every channel onSniffedBuffer records for the device.
C18_ChannelInRange ==
  /\ hidChannel \in 1..TopChannel
  /\ devChannels \subseteq 1..TopChannel

\* C19: isSniffing() holds exactly when the last setSniffMode that succeeded
\* supplied an address; the normalized and the raw address are both empty or
\* both those of one device; a call with a string that is no address
\* returns an error and leaves both fields as they were; every call resets
\* the in-sniffer-mode flag, and the next doPing enters sniffer mode again.
C19_SniffModeConsistent ==
  /\ [](/\ IsSniffing <=> lastMode \notin {"none", "clear"}
        /\ sniffAddr = "" <=> sniffAddrRaw = NoRaw
        /\ IsSniffing => (/\ ConvertAddress(sniffAddr) = sniffAddrRaw
                          /\ ConvertAddress(lastMode) = sniffAddrRaw
                          /\ NormalizeHIDAddress(sniffAddr) = sniffAddr))
  /\ [][/\ \A mode \in Modes :
            SetSniffMode(mode) =>
              /\ ~inSniffMode'
              /\ sniffRet'.err <=> (mode # "clear" /\ ConvertAddress(mode) = BadAddress)
              /\ sniffRet'.err => (sniffAddr' = sniffAddr /\ sniffAddrRaw' = sniffAddrRaw)
         /\ \A enterOk \in BOOLEAN, txOk \in BOOLEAN, first \in FirstOks :
              (DoPing(enterOk, txOk, first) /\ ~inSniffMode) => (inSniffMode' <=> enterOk)]_vars

\* An address was set, entered by doPing, and then a string that is no
\* address was refused: the device is still the one set, the flag is reset.
C19_Witness ==
  /\ sniffRet = [mode |-> "zz", err |-> TRUE]
  /\ lastMode = "1F:2E" /\ sniffAddr = "1f:2e" /\ sniffAddrRaw = <<31, 46>>
  /\ ~inSniffMode /\ lastSent # Never

====
